---- MODULE Spec2Model ----
(***************************************************************************)
(* A model of mikeio's Dfsu class (src/mikeio/dfsu.py): one Dfsu object,   *)
(* one container file `filename`, one mesh file, and the caller's list of  *)
(* data arrays.  Each public method is one action; the calls it makes to   *)
(* the storage provider are recorded in readLog / writeLog.                *)
(*                                                                         *)
(* Encoding of numbers.  A float64 is an integer: NaN is -1, and the       *)
(* finite values are the naturals.  The values a System.Single can hold    *)
(* are the even naturals, so an odd value loses precision when stored.     *)
(* Python lists and numpy arrays are sequences, hence 1-based here: row i  *)
(* of data[item] in the source is data[item + 1][i + 1] in the model.      *)
(* Item numbers and time steps chosen by the caller keep their 0-based     *)
(* values.                                                                 *)
(***************************************************************************)
EXTENDS Integers, Sequences, FiniteSets, TLC

VARIABLES
    file,          \* the container stored at `filename`
    meshfile,      \* the mesh stored at `meshfilename`
    self_dfs,      \* Dfsu._dfs: the handle the object holds, and its state
    data,          \* the caller's list of data arrays
    supplied,      \* that list as it was when write/create was last called
    stored,        \* the call that put `supplied` in the container: "write" or
                   \* "create"; "partial" if it raised midway, "none" if none did
    op,            \* the method that ran last
    args,          \* its arguments
    status,        \* "ok", or the exception it raised
    handle,        \* state of the handle that method opened (or used), on return
    readLog,       \* ReadItemTimeStep calls of that method, in order
    writeLog,      \* WriteItemTimeStepNext calls of that method, in order
    builderItems,  \* AddDynamicItem calls of that method, in order
    result,        \* what it returned
    sortTies       \* how this build's default argsort orders equal keys

vars == <<file, meshfile, self_dfs, data, supplied, stored, op, args, status, handle,
          readLog, writeLog, builderItems, result, sortTies>>

---------------------------------------------------------------------------
(* Bounds of the model *)

MaxItems == 2      \* items of the initial container, and of a data list
MaxSteps == 2      \* time steps of the initial container, and rows of an array
MaxCoord == 1      \* the coordinates of a query point are 0..MaxCoord

(* Values of the environment *)

NaN == -1
DeleteValue == 0   \* dfs.DeleteValueFloat of every container
FileStart == 5     \* dfs.StartDateTime of the initial container, in seconds
Now == 9           \* datetime.now() when create is called

None == [some |-> FALSE]
Some(x) == [some |-> TRUE, val |-> x]

---------------------------------------------------------------------------
(* Marshalling (mikeio/dotnet.py) *)

ToSingle(v) == IF v = NaN THEN NaN ELSE v - (v % 2)

to_dotnet_float_array(d) == [x \in DOMAIN d |-> ToSingle(d[x])]

to_numpy(src) == [x \in DOMAIN src |-> src[x]]

---------------------------------------------------------------------------
(* The storage provider (DHI.Generic.MikeZero.DFS), as the methods use it. *)
(* A container is a record: DfsuFileType, ItemInfo (the item names),       *)
(* StartDateTime, dt, steps (steps[it + 1][item] is the stored row of the  *)
(* 1-based provider item `item` at time step `it`) and the mesh.           *)

NumberOfTimeSteps(dfs) == Len(dfs.steps)

NumberOfElements(dfs) == Len(dfs.mesh.ElementTable)

Is3D(dfs) == dfs.DfsuFileType \in {"Dfsu3DSigma", "Dfsu3DSigmaZ"}

\* itemdata.Time of time step `it`: the axis is equidistant
ItemTime(dfs, it) == it * dfs.dt

\* ReadItemTimeStep accepts 1-based items and 0-based time steps of the file
CanReadItemTimeStep(dfs, item, it) ==
    /\ item \in 1..Len(dfs.ItemInfo)
    /\ it \in 0..(NumberOfTimeSteps(dfs) - 1)
    /\ item \in DOMAIN dfs.steps[it + 1]

\* The k-th call (k = 0, 1, ...) on a handle of a container of M items
\* stores its row at time step k div M, item (k mod M) + 1.
WriteItemTimeStepNext(steps, M, k, darray) ==
    LET it == k \div M
        item == (k % M) + 1
    IN  IF it + 1 > Len(steps) THEN Append(steps, <<darray>>)
        ELSE IF item > Len(steps[it + 1])
             THEN [steps EXCEPT ![it + 1] = Append(@, darray)]
             ELSE [steps EXCEPT ![it + 1][item] = darray]

---------------------------------------------------------------------------
(* The loop shared by write and create *)

\* d[np.isnan(d)] = deletevalue
MaskNaN(d, deletevalue) ==
    [x \in DOMAIN d |-> IF d[x] = NaN THEN deletevalue ELSE d[x]]

\* data[item][i, :] exists
HasRow(d, item, i) == item + 1 \in DOMAIN d /\ i + 1 \in DOMAIN d[item + 1]

\* A loop that indexes data with the time step: data[i][i, :]
LoopItemAsStep(k, n_items) == k \div n_items

\* The (time step, item) the k-th pass of the nested loops is at
LoopStep(k, n_items) == k \div n_items
LoopItem(k, n_items) == k % n_items

\* Passes k, k+1, ... of `for i in range(n_time_steps): for item in
\* range(n_items)`.  st is [data, steps, log, status]; the row is a view of
\* the caller's array, so masking it changes the caller's array.
RECURSIVE WriteLoop(_, _, _, _, _)
WriteLoop(k, n_time_steps, n_items, M, st) ==
    IF k >= n_time_steps * n_items THEN st
    ELSE LET i == LoopStep(k, n_items)
             item == LoopItem(k, n_items)
         IN  IF ~HasRow(st.data, item, i)
             THEN [st EXCEPT !.status = "IndexError"]
             ELSE LET d == MaskNaN(st.data[item + 1][i + 1], DeleteValue)
                      darray == to_dotnet_float_array(d)
                  IN  WriteLoop(k + 1, n_time_steps, n_items, M,
                         [data |-> [st.data EXCEPT ![item + 1][i + 1] = d],
                          steps |-> WriteItemTimeStepNext(st.steps, M, k, darray),
                          log |-> Append(st.log, darray),
                          status |-> "ok"])

---------------------------------------------------------------------------
(* The data lists a caller passes to write and create: n arrays of t rows  *)
(* of e values.  The plain list gives every row its own exactly storable   *)
(* value.  The others are the plain list with one cell overwritten (with   *)
(* NaN, the delete value, a value stored as the delete value, or a value   *)
(* stored inexactly), and lists filled with a pattern of such values.      *)

CellValues == {NaN, DeleteValue, DeleteValue + 1, DeleteValue + 3}

PlainValue(n, item, i) == 2 * ((i - 1) * n + item) + 2

PlainData(n, t, e) ==
    [item \in 1..n |-> [i \in 1..t |-> [x \in 1..e |-> PlainValue(n, item, i)]]]

OneHole(d) ==
    { [d EXCEPT ![item][i][x] = v] :
        item \in DOMAIN d, i \in DOMAIN d[1], x \in DOMAIN d[1][1], v \in CellValues }

Patterns(n, t, e) ==
    { [item \in 1..n |-> [i \in 1..t |-> [x \in 1..e |-> NaN]]],
      [item \in 1..n |-> [i \in 1..t |-> [x \in 1..e |->
          IF (item + i) % 2 = 0 THEN NaN ELSE PlainValue(n, item, i) + 1]]],
      [item \in 1..n |-> [i \in 1..t |-> [x \in 1..e |->
          IF (item + i) % 2 = 0 THEN DeleteValue + 1
          ELSE IF item = 1 THEN NaN ELSE DeleteValue]]] }

\* A list whose last array is one row shorter than the others
DropLastRow(d) == [d EXCEPT ![Len(d)] = SubSeq(@, 1, Len(@) - 1)]

DataLists(e) ==
    UNION { {PlainData(n, t, e)} \cup OneHole(PlainData(n, t, e)) \cup Patterns(n, t, e) :
              n \in 1..MaxItems, t \in 1..MaxSteps }
    \cup { DropLastRow(PlainData(n, t, e)) : n \in 2..MaxItems, t \in 2..MaxSteps }

---------------------------------------------------------------------------
(* Meshes *)

\* One quadrilateral on (0,0), (1,0), (1,1), (0,1)
UnitMesh ==
    [X |-> <<0, 1, 1, 0>>, Y |-> <<0, 0, 1, 1>>, Z |-> <<0, 0, 0, 0>>,
     Code |-> <<1, 1, 0, 0>>, ElementTable |-> << <<1, 2, 3, 4>> >>,
     ProjectionString |-> "LONG/LAT"]

\* The container that exists before the first call: MaxItems items (the
\* first is the dynamic Z item when the file is 3D), MaxSteps time steps,
\* every row holding its own finite value.
ItemInfo(name) == [name |-> name, type |-> "Undefined", unit |-> "undefined"]

InitialItem(type, k) ==
    IF k = 1 /\ type # "Dfsu2D"
    THEN [name |-> "Z coordinate", type |-> "ItemGeometry3D", unit |-> "meter"]
    ELSE [name |-> "Var " \o ToString(k), type |-> "Water Level", unit |-> "meter"]

InitialFile(type, mesh) ==
    [DfsuFileType |-> type,
     ItemInfo |-> [k \in 1..MaxItems |-> InitialItem(type, k)],
     StartDateTime |-> FileStart,
     dt |-> 1,
     steps |-> [i \in 1..MaxSteps |->
                  [item \in 1..MaxItems |->
                     [x \in 1..Len(mesh.ElementTable) |->
                        PlainValue(MaxItems, item, i)]]],
     mesh |-> mesh]

FileTypes == {"Dfsu2D", "Dfsu3DSigma", "Dfsu3DSigmaZ"}

---------------------------------------------------------------------------
(* Dfsu.write *)

write ==
        LET n_time_steps == NumberOfTimeSteps(file)
            n_items == Len(file.ItemInfo)
            st == WriteLoop(0, n_time_steps, n_items, n_items,
                            [data |-> data, steps |-> file.steps,
                             log |-> <<>>, status |-> "ok"])
        IN  /\ file' = [file EXCEPT !.steps = st.steps]
            /\ data' = st.data
            /\ supplied' = data
            /\ stored' = IF st.status = "ok" THEN "write" ELSE "partial"
            /\ op' = "write"
            /\ args' = None
            /\ status' = st.status
            /\ handle' = IF st.status = "ok" THEN "closed" ELSE "open"
            /\ writeLog' = st.log
            /\ readLog' = <<>>
            /\ builderItems' = <<>>
            /\ result' = None
            /\ UNCHANGED <<meshfile, self_dfs, sortTies>>

---------------------------------------------------------------------------
(* Dfsu.create *)

\* MeshFile.ReadMesh(meshfilename)
ReadMesh == meshfile

DefaultItems(n_items) == [i \in 1..n_items |-> ItemInfo("temItem " \o ToString(i))]

\* A caller's own item list, one entry per data array
CallerItems(n_items) ==
    [i \in 1..n_items |->
       [name |-> "U" \o ToString(i), type |-> "Current Speed", unit |-> "meter per sec"]]

\* builder.CreateFile(filename) when it succeeds: an empty 2D container
CreateFile(mesh, start_time, dt, declared) ==
    [DfsuFileType |-> "Dfsu2D", ItemInfo |-> declared,
     StartDateTime |-> start_time, dt |-> dt, steps |-> <<>>, mesh |-> mesh]

create ==
    \E items \in {None, Some("caller")}, outcome \in {"ok", "IOError"} :
        LET n_items == Len(data)
            n_time_steps == Len(data[1])
            start_time == Now
            itemlist == IF items.some THEN CallerItems(n_items)
                        ELSE DefaultItems(n_items)
            dfs == CreateFile(ReadMesh, start_time, 1, itemlist)
            st == WriteLoop(0, n_time_steps, n_items, Len(dfs.ItemInfo),
                            [data |-> data, steps |-> dfs.steps,
                             log |-> <<>>, status |-> "ok"])
        IN  /\ supplied' = data
            /\ op' = "create"
            /\ args' = [items |-> items, outcome |-> outcome]
            /\ builderItems' = itemlist
            /\ readLog' = <<>>
            /\ result' = None
            /\ IF outcome = "IOError"
               THEN \* the except clause prints; line 206 then reads the unbound dfs
                    /\ status' = "UnboundLocalError"
                    /\ handle' = "none"
                    /\ writeLog' = <<>>
                    /\ stored' = "none"
                    /\ UNCHANGED <<file, data>>
               ELSE /\ status' = st.status
                    /\ handle' = IF st.status = "ok" THEN "closed" ELSE "open"
                    /\ data' = st.data
                    /\ writeLog' = st.log
                    /\ file' = [dfs EXCEPT !.steps = st.steps]
                    /\ stored' = IF st.status = "ok" THEN "create" ELSE "partial"
            /\ UNCHANGED <<meshfile, self_dfs, sortTies>>

---------------------------------------------------------------------------
(* Dfsu.read *)

\* dutil.find_item: the 0-based places of the names in the item metadata
NamePlace(dfs, name) ==
    (CHOOSE k \in DOMAIN dfs.ItemInfo : dfs.ItemInfo[k].name = name) - 1

HasName(dfs, name) == \E k \in DOMAIN dfs.ItemInfo : dfs.ItemInfo[k].name = name

find_item(dfs, item_names) ==
    [k \in DOMAIN item_names |-> NamePlace(dfs, item_names[k])]

\* dutil.get_item_info: the metadata of the selected items
CanGetItemInfo(dfs, item_numbers, item_offset) ==
    \A k \in DOMAIN item_numbers :
        item_numbers[k] + item_offset + 1 \in DOMAIN dfs.ItemInfo

get_item_info(dfs, item_numbers, item_offset) ==
    [k \in DOMAIN item_numbers |-> dfs.ItemInfo[item_numbers[k] + item_offset + 1]]

\* A read that leaves the delete values in place
MaskDeleteKeeps(d, deleteValue) == d

\* d[d == deleteValue] = np.nan
MaskDelete(d, deleteValue) ==
    [x \in DOMAIN d |-> IF d[x] = deleteValue THEN NaN ELSE d[x]]

\* A read that takes every container for 2D
ItemOffsetNone(dfs) == 0

ItemOffset(dfs) == IF Is3D(dfs) THEN 1 ELSE 0

\* A time axis counted from the place in the selection, not from itemdata.Time
TimeAxisByPlace(start_time, t_seconds) ==
    [i \in DOMAIN t_seconds |-> start_time + (i - 1)]

\* [start_time + timedelta(seconds=tsec) for tsec in t_seconds]
TimeAxis(start_time, t_seconds) ==
    [i \in DOMAIN t_seconds |-> start_time + t_seconds[i]]

VisibleItems(dfs) == Len(dfs.ItemInfo) - ItemOffset(dfs)

Range(n) == [k \in 1..n |-> k - 1]

\* The provider item asked for: item_numbers[item] + item_offset + 1
ProviderItem(item_number, item_offset) == item_number + item_offset + 1

\* What read does between opening the handle and closing it:
\* [status, log, value], value being the Dataset when status is "ok".
ReadBody(dfs, item_numbers, item_names, time_steps) ==
    LET item_offset == ItemOffset(dfs)
        nt == NumberOfTimeSteps(dfs)
        found == item_names.some =>
                   \A k \in DOMAIN item_names.val : HasName(dfs, item_names.val[k])
        numbers == IF item_names.some THEN find_item(dfs, item_names.val)
                   ELSE IF item_numbers.some THEN item_numbers.val
                   ELSE Range(VisibleItems(dfs))
        n_items == Len(numbers)
        steps == IF time_steps.some THEN time_steps.val ELSE Range(nt)
        reqs == [k \in 1..(Len(steps) * n_items) |->
                   <<ProviderItem(numbers[((k - 1) % n_items) + 1], item_offset),
                     steps[((k - 1) \div n_items) + 1]>>]
        bad == {k \in DOMAIN reqs : ~CanReadItemTimeStep(dfs, reqs[k][1], reqs[k][2])}
        firstBad == CHOOSE k \in bad : \A j \in bad : k <= j
        data_list ==
            [item \in 1..n_items |->
               [i \in 1..Len(steps) |->
                  MaskDelete(
                    to_numpy(dfs.steps[steps[i] + 1]
                                      [ProviderItem(numbers[item], item_offset)]),
                    DeleteValue)]]
        t_seconds == [i \in 1..Len(steps) |-> ItemTime(dfs, steps[i])]
        time == TimeAxis(dfs.StartDateTime, t_seconds)
    IN  IF ~found
        THEN [status |-> "ItemNotFound", log |-> <<>>, value |-> None]
        ELSE IF n_items = 0 /\ Len(steps) > 0
        THEN \* line 92 reads itemdata, which no pass of the inner loop has set
             [status |-> "UnboundLocalError", log |-> <<>>, value |-> None]
        ELSE IF bad # {}
        THEN [status |-> "ProviderError", log |-> SubSeq(reqs, 1, firstBad),
              value |-> None]
        ELSE IF ~CanGetItemInfo(dfs, numbers, item_offset)
        THEN [status |-> "IndexError", log |-> reqs, value |-> None]
        ELSE [status |-> "ok", log |-> reqs,
              value |-> Some([data |-> data_list, time |-> time,
                              items |-> get_item_info(dfs, numbers, item_offset)])]

read(item_numbers, item_names, time_steps) ==
    LET r == ReadBody(file, item_numbers, item_names, time_steps)
        closed == IF r.status = "ok" THEN "closed" ELSE "open"
    IN  /\ self_dfs' = [state |-> closed, mesh |-> file.mesh,
                         nt |-> NumberOfTimeSteps(file)]
        /\ handle' = closed
        /\ op' = "read"
        /\ args' = [item_numbers |-> item_numbers, item_names |-> item_names,
                    time_steps |-> time_steps]
        /\ status' = r.status
        /\ readLog' = r.log
        /\ writeLog' = <<>>
        /\ builderItems' = <<>>
        /\ result' = r.value
        /\ UNCHANGED <<file, meshfile, data, supplied, stored, sortTies>>

\* The names a caller may ask for: the container's, and one it does not hold
NameSelections ==
    { <<file.ItemInfo[k].name>> : k \in DOMAIN file.ItemInfo } \cup { <<"Salinity">> }

ReadAll == read(None, None, None)

ReadByName == \E names \in NameSelections : read(None, Some(names), None)

\* The selections a caller may pass: no item, one item of 0..MaxItems, or
\* the first two items in either order; at most two time steps of
\* 0..MaxSteps, in any order
ShortLists(S) == {<<>>} \cup {<<a>> : a \in S} \cup {<<a, b>> : a \in S, b \in S}

ItemNumberSelections ==
    {None, Some(<<>>), Some(<<0, 1>>), Some(<<1, 0>>)}
    \cup {Some(<<a>>) : a \in 0..MaxItems}

TimeStepSelections == {None} \cup {Some(l) : l \in ShortLists(0..MaxSteps)}

ReadSelected ==
    \E time_steps \in TimeStepSelections :
        \/ \E item_numbers \in ItemNumberSelections :
               read(item_numbers, None, time_steps)
        \/ \E names \in NameSelections : read(None, Some(names), time_steps)

---------------------------------------------------------------------------
(* The geometry queries.  Each reads self._dfs: an AttributeError when the *)
(* object has read no file yet; when the handle is closed the provider may *)
(* still answer from what it loaded, or refuse.                            *)

Sum(seq) ==
    LET F[k \in 0..Len(seq)] == IF k = 0 THEN 0 ELSE F[k - 1] + seq[k]
    IN  F[Len(seq)]

\* The entries of seq at the places in keep, in order
SelectIdx(seq, keep) ==
    LET F[k \in 0..Len(seq)] ==
          IF k = 0 THEN <<>>
          ELSE IF k \in keep THEN Append(F[k - 1], seq[k]) ELSE F[k - 1]
    IN  F[Len(seq)]

GeometryCall(name, a, r) ==
    /\ op' = name
    /\ args' = a
    /\ handle' = self_dfs.state
    /\ \/ /\ self_dfs.state = "unset"
          /\ status' = "AttributeError"
          /\ result' = None
       \/ /\ self_dfs.state \in {"open", "closed"}
          /\ status' = r.status
          /\ result' = r.value
       \/ /\ self_dfs.state = "closed"
          /\ status' = "ProviderError"
          /\ result' = None
    /\ readLog' = <<>>
    /\ writeLog' = <<>>
    /\ builderItems' = <<>>
    /\ UNCHANGED <<file, meshfile, self_dfs, data, supplied, stored, sortTies>>

Ok(v) == [status |-> "ok", value |-> Some(v)]

\* Not evaluated while self._dfs is unset
TheMesh == self_dfs.mesh

NodeCoords(mesh) == [n \in DOMAIN mesh.X |-> <<mesh.X[n], mesh.Y[n], mesh.Z[n]>>]

get_node_coords ==
    \E code \in {None} \cup {Some(c) : c \in 0..2} :
        GeometryCall("get_node_coords", code,
            IF ~code.some THEN Ok(NodeCoords(TheMesh))
            ELSE IF \A n \in DOMAIN TheMesh.Code : TheMesh.Code[n] # code.val
            THEN [status |-> "Exception", value |-> None]
            ELSE Ok(SelectIdx(NodeCoords(TheMesh),
                              {n \in DOMAIN TheMesh.Code : TheMesh.Code[n] = code.val})))

\* The centre of element j, times 12 so that the means of 3 and of 4
\* coordinates are integers: ec[j, c] = ElementCoords(mesh)[j + 1][c + 1] / 12
ElementCoords(mesh) ==
    [j \in DOMAIN mesh.ElementTable |->
       LET nodes == mesh.ElementTable[j]
           mean12(coord) ==
               (12 \div Len(nodes)) * Sum([i \in DOMAIN nodes |-> coord[nodes[i]]])
       IN  <<mean12(mesh.X), mean12(mesh.Y), mean12(mesh.Z)>>]

get_element_coords ==
    GeometryCall("get_element_coords", None, Ok(ElementCoords(TheMesh)))

\* ((ec[:, 0:dims] - poi) ** 2).sum(axis=1), times 144
SquaredDistances(ec12, poi) ==
    [j \in DOMAIN ec12 |->
       Sum([c \in DOMAIN poi |-> (ec12[j][c] - 12 * poi[c]) * (ec12[j][c] - 12 * poi[c])])]

\* d.argsort()[0]: the default sort kind is not stable, so which of several
\* equal smallest keys comes first is the build's choice.  0-based.
ArgsortFirst(d, ties) ==
    LET least == {j \in DOMAIN d : \A k \in DOMAIN d : d[j] <= d[k]}
    IN  IF ties = "first"
        THEN (CHOOSE j \in least : \A k \in least : j <= k) - 1
        ELSE (CHOOSE j \in least : \A k \in least : j >= k) - 1

QueryPoint(x, y, z) == IF z.some THEN <<x, y, z.val>> ELSE <<x, y>>

find_closest_element_index ==
    \E x \in 0..MaxCoord, y \in 0..MaxCoord,
       z \in {None} \cup {Some(c) : c \in 0..MaxCoord} :
        GeometryCall("find_closest_element_index", [x |-> x, y |-> y, z |-> z],
            IF TheMesh.ElementTable = <<>>
            THEN [status |-> "IndexError", value |-> None]
            ELSE Ok(ArgsortFirst(
                      SquaredDistances(ElementCoords(TheMesh), QueryPoint(x, y, z)),
                      sortTies)))

get_number_of_time_steps ==
    GeometryCall("get_number_of_time_steps", None, Ok(self_dfs.nt))

IsGeo(mesh) == mesh.ProjectionString = "LONG/LAT"

is_geo == GeometryCall("is_geo", None, Ok(IsGeo(TheMesh)))

Abs(v) == IF v < 0 THEN -v ELSE v

\* np.abs(area[j]) of element j is area2 / 2, times (earth_radius *
\* deg_to_rad)^2 * cos(deg2rad(lat12 / 12)) when the mesh is geographic:
\* every product of the area formula has one x and one y component.
ElementArea(mesh) ==
    [j \in DOMAIN mesh.ElementTable |->
       LET nodes == mesh.ElementTable[j]
           xc(i) == mesh.X[nodes[i]]
           yc(i) == mesh.Y[nodes[i]]
           abx == xc(2) - xc(1)
           aby == yc(2) - yc(1)
           acx == xc(3) - xc(1)
           acy == yc(3) - yc(1)
           isquad == Len(nodes) > 3
           tri == abx * acy - aby * acx
           quad == IF isquad
                   THEN acx * (yc(4) - yc(1)) - acy * (xc(4) - xc(1))
                   ELSE 0
       IN  [area2 |-> Abs(tri + quad),
            geo |-> IsGeo(mesh),
            lat12 |-> (12 \div Len(nodes)) * Sum([i \in DOMAIN nodes |-> yc(i)])]]

get_element_area ==
    GeometryCall("get_element_area", None, Ok(ElementArea(TheMesh)))

---------------------------------------------------------------------------
(* Meshes on the nodes (0,0) (1,0) (2,0) (0,1) (1,1) (2,1) *)

GridMesh(table, projection) ==
    [X |-> <<0, 1, 2, 0, 1, 2>>, Y |-> <<0, 0, 0, 1, 1, 1>>,
     Z |-> <<0, 1, 0, 2, 0, 1>>, Code |-> <<1, 1, 1, 0, 0, 0>>,
     ElementTable |-> table, ProjectionString |-> projection]

Meshes ==
    { GridMesh(<< <<1, 2, 5, 4>>, <<2, 3, 6, 5>> >>, "LONG/LAT"),
      GridMesh(<< <<1, 2, 5>>, <<1, 5, 4>>, <<2, 3, 6, 5>> >>, "UTM-32"),
      GridMesh(<< <<2, 3, 6, 5>>, <<1, 5, 4>>, <<1, 2, 5>> >>, "UTM-32"),
      GridMesh(<< <<1, 2, 4>>, <<2, 5, 4>>, <<2, 3, 5>>, <<3, 6, 5>> >>, "UTM-32") }

---------------------------------------------------------------------------
(* Specifications.  Each starts from a new Dfsu object beside an existing  *)
(* container and a caller holding a data list.                             *)

Start(type, mesh, d, ties) ==
    /\ file = InitialFile(type, mesh)
    /\ meshfile = mesh
    /\ self_dfs = [state |-> "unset"]
    /\ data = d
    /\ supplied = <<>>
    /\ stored = "none"
    /\ op = "none"
    /\ args = None
    /\ status = "ok"
    /\ handle = "none"
    /\ readLog = <<>>
    /\ writeLog = <<>>
    /\ builderItems = <<>>
    /\ result = None
    /\ sortTies = ties

\* Every method, on the meshes, with plain data
FullData(mesh) == PlainData(MaxItems, MaxSteps, Len(mesh.ElementTable))

Init ==
    \/ \E mesh \in Meshes, ties \in {"first", "last"} :
           Start("Dfsu2D", mesh, FullData(mesh), ties)
    \/ \E type \in FileTypes, d \in {FullData(UnitMesh), DropLastRow(FullData(UnitMesh))} :
           Start(type, UnitMesh, d, "first")

Next ==
    \/ write
    \/ create
    \/ ReadAll
    \/ ReadByName
    \/ get_node_coords
    \/ get_element_coords
    \/ find_closest_element_index
    \/ get_number_of_time_steps
    \/ is_geo
    \/ get_element_area

Spec == Init /\ [][Next]_vars

\* write, create and read of everything, with data lists of every shape
\* and with NaN and delete values in them
InitData ==
    \E type \in FileTypes, d \in DataLists(Len(UnitMesh.ElementTable)) :
        Start(type, UnitMesh, d, "first")

NextData == write \/ create \/ ReadAll \/ ReadByName

SpecData == InitData /\ [][NextData]_vars

\* read with every selection of items and time steps
InitSelect ==
    \E type \in FileTypes :
        Start(type, UnitMesh, FullData(UnitMesh), "first")

NextSelect == write \/ ReadSelected

SpecSelect == InitSelect /\ [][NextSelect]_vars

---------------------------------------------------------------------------
(* Properties *)

StoreCalls == {"read", "write", "create"}

GeometryQueries ==
    {"get_node_coords", "get_element_coords", "find_closest_element_index",
     "get_element_area", "is_geo", "get_number_of_time_steps"}

\* C1: when read, write or create returns, by a return or by an exception,
\* the handle it opened is closed.
C1_HandleClosedOnReturn == op \in StoreCalls => handle # "open"

\* C2: when the provider's CreateFile fails, create raises CreateFailed and
\* makes no write to a container.
C2_CreateFailedReported ==
    (op = "create" /\ args.outcome = "IOError")
        => (status = "CreateFailed" /\ writeLog = <<>>)

ReadOk == op = "read" /\ status = "ok"

IsReadAll ==
    /\ ReadOk
    /\ ~args.item_numbers.some /\ ~args.item_names.some /\ ~args.time_steps.some

\* A read of everything, of a container that write or create last filled
RoundTrip == IsReadAll /\ stored \in {"write", "create"}

\* C3, as claimed: after write (or create), read of all items and time
\* steps returns NaN exactly where NaN was supplied, and the supplied value
\* everywhere else.
C3_RoundTripExact ==
    RoundTrip =>
        \A item \in DOMAIN result.val.data :
          \A i \in DOMAIN result.val.data[item] :
            \A x \in DOMAIN result.val.data[item][i] :
              /\ item \in DOMAIN supplied
              /\ (result.val.data[item][i][x] = NaN) = (supplied[item][i][x] = NaN)
              /\ result.val.data[item][i][x] = supplied[item][i][x]

\* What a supplied value comes back as
StoredAs(v) == ToSingle(IF v = NaN THEN DeleteValue ELSE v)

ReadBackAs(v) == IF StoredAs(v) = DeleteValue THEN NaN ELSE StoredAs(v)

\* C3, amended: the array read for user item k holds, for the supplied
\* array of provider item k (the next array when the container is 3D), NaN
\* exactly where the supplied value was NaN or is stored as the delete
\* value, and the supplied value in single precision everywhere else.
C3_RoundTripMasked ==
    RoundTrip =>
        /\ Len(result.val.data) = VisibleItems(file)
        /\ \A item \in DOMAIN result.val.data :
             /\ Len(result.val.data[item]) = NumberOfTimeSteps(file)
             /\ \A i \in DOMAIN result.val.data[item] :
                  \A x \in 1..NumberOfElements(file) :
                    LET v == supplied[item + ItemOffset(file)][i][x]
                        r == result.val.data[item][i][x]
                    IN  /\ (r = NaN) = (v = NaN \/ StoredAs(v) = DeleteValue)
                        /\ r # NaN => r = ToSingle(v)
                        /\ r = ReadBackAs(v)

HasCell(d, v) ==
    \E item \in DOMAIN d : \E i \in DOMAIN d[item] : \E x \in DOMAIN d[item][i] :
        d[item][i][x] = v

C3_Witness ==
    /\ RoundTrip
    /\ HasCell(supplied, NaN)
    /\ HasCell(result.val.data, NaN)
    /\ \E item \in DOMAIN result.val.data :
         /\ result.val.data[item][1][1] # NaN
         /\ result.val.data[item][1][1] = supplied[item + ItemOffset(file)][1][1]

\* The bounds of the nested loops of the last write or create
LoopItems == IF op = "write" THEN Len(file.ItemInfo) ELSE Len(supplied)
LoopSteps == IF op = "write" THEN NumberOfTimeSteps(file) ELSE Len(supplied[1])

\* C4: the k-th WriteItemTimeStepNext call of write or create (k = 0, 1,
\* ...) carries row (k div N) of data[k mod N] with NaN replaced by the
\* delete value, marshalled to a float array; at most T * N calls are made,
\* and exactly T * N when the handle has been closed.
C4_WriteOrder ==
    op \in {"write", "create"} =>
        /\ Len(writeLog) <= LoopSteps * LoopItems
        /\ handle = "closed" => Len(writeLog) = LoopSteps * LoopItems
        /\ \A k \in 0..(Len(writeLog) - 1) :
             LET item == k % LoopItems
                 i == k \div LoopItems
                 row == supplied[item + 1][i + 1]
             IN  /\ item + 1 \in DOMAIN supplied
                 /\ i + 1 \in DOMAIN supplied[item + 1]
                 /\ writeLog[k + 1] =
                      [x \in DOMAIN row |->
                         ToSingle(IF row[x] = NaN THEN DeleteValue ELSE row[x])]

C4_Witness ==
    /\ op = "write"
    /\ handle = "closed"
    /\ Len(writeLog) = MaxItems * MaxSteps
    /\ HasCell(supplied, NaN)
    /\ writeLog[1] # writeLog[2]

\* C7: create without items declares len(data) dynamic items, the i-th
\* named "Item i" with undefined unit.
C7_DefaultItemNames ==
    (op = "create" /\ ~args.items.some) =>
        builderItems = [i \in 1..Len(supplied) |-> ItemInfo("Item " \o ToString(i))]

\* C10: write and create leave every array of the caller's data list as
\* it was.
C10_DataUnchanged == op \in {"write", "create"} => data = supplied

\* C6: no geometry query uses a handle that is closed or was never opened.
C6_QueriesUseOpenHandle == op \in GeometryQueries => handle = "open"

\* C8: find_closest_element_index returns an element whose centre is at
\* least as close to the query point as every other element's, and the
\* lowest index among the elements at that distance.
C8_ClosestLowestIndex ==
    (op = "find_closest_element_index" /\ status = "ok") =>
        LET d == SquaredDistances(ElementCoords(self_dfs.mesh),
                                  QueryPoint(args.x, args.y, args.z))
            idx == result.val + 1
        IN  /\ idx \in DOMAIN d
            /\ \A j \in DOMAIN d : d[idx] <= d[j] /\ (d[j] = d[idx] => idx <= j)

\* The selection a read was asked for
SelectedNumbers ==
    IF args.item_names.some THEN find_item(file, args.item_names.val)
    ELSE IF args.item_numbers.some THEN args.item_numbers.val
    ELSE [k \in 1..(Len(file.ItemInfo) - (IF Is3D(file) THEN 1 ELSE 0)) |-> k - 1]

SelectedSteps ==
    IF args.time_steps.some THEN args.time_steps.val
    ELSE [k \in 1..NumberOfTimeSteps(file) |-> k - 1]

NonDecreasing(seq) == \A i \in DOMAIN seq : \A j \in DOMAIN seq : i <= j => seq[i] <= seq[j]

\* C5, as claimed: the time of every Dataset read returns is non-decreasing
\* and starts at the container's start time, whatever time_steps is.
C5_TimeAnySelection ==
    ReadOk =>
        /\ NonDecreasing(result.val.time)
        /\ Len(result.val.time) > 0 => result.val.time[1] = file.StartDateTime

\* C5, amended: the time of a Dataset has one entry per selected time step,
\* the container's start time plus that step's elapsed seconds; it is
\* non-decreasing when the selected steps are (as by default), and starts
\* at the container's start time when the first selected step is step 0
\* (as by default).
C5_TimeOfSelection ==
    ReadOk =>
        /\ Len(result.val.time) = Len(SelectedSteps)
        /\ \A i \in DOMAIN SelectedSteps :
             result.val.time[i] = file.StartDateTime + SelectedSteps[i] * file.dt
        /\ NonDecreasing(SelectedSteps) => NonDecreasing(result.val.time)
        /\ (SelectedSteps # <<>> /\ SelectedSteps[1] = 0)
             => result.val.time[1] = file.StartDateTime
        /\ ~args.time_steps.some =>
             /\ NonDecreasing(result.val.time)
             /\ result.val.time # <<>> /\ result.val.time[1] = file.StartDateTime

C5_Witness ==
    /\ ReadOk
    /\ args.time_steps.some
    /\ args.time_steps.val = <<0, 1>>
    /\ result.val.time = <<file.StartDateTime, file.StartDateTime + file.dt>>

FirstProviderItem == IF Is3D(file) THEN 2 ELSE 1

ItemRequests ==
    /\ \A k \in DOMAIN readLog :
         readLog[k][1] =
           SelectedNumbers[((k - 1) % Len(SelectedNumbers)) + 1] + FirstProviderItem
    /\ Is3D(file) => \A k \in DOMAIN readLog : readLog[k][1] # 1
    /\ status = "ok" =>
         /\ Len(readLog) = Len(SelectedNumbers) * Len(SelectedSteps)
         /\ Len(result.val.data) = Len(SelectedNumbers)
    /\ (status = "ok" /\ ~args.item_names.some /\ ~args.item_numbers.some) =>
         Len(result.val.data) = Len(file.ItemInfo) - (IF Is3D(file) THEN 1 ELSE 0)

\* C9, as claimed: read asks the provider for item k + 2 (3D) or k + 1 of
\* every selected item number k, never for the dynamic Z item, by default
\* for all user-visible items, and every item it asks for is one of 1..M.
C9_RequestsInRange ==
    (op = "read" /\ status # "ItemNotFound") =>
        /\ ItemRequests
        /\ \A k \in DOMAIN readLog : readLog[k][1] \in 1..Len(file.ItemInfo)

\* C9, amended: as C9, but the items asked for are among 1..M when every
\* selected item number is a user-visible one (0..M-2 for 3D, 0..M-1
\* otherwise); any other number k is passed to the provider as k + 2 or
\* k + 1 all the same.
C9_RequestsOfSelection ==
    (op = "read" /\ status # "ItemNotFound") =>
        /\ ItemRequests
        /\ (\A j \in DOMAIN SelectedNumbers :
               SelectedNumbers[j] \in 0..(Len(file.ItemInfo) - FirstProviderItem))
             => \A k \in DOMAIN readLog : readLog[k][1] \in 1..Len(file.ItemInfo)

C9_Witness ==
    /\ ReadOk
    /\ Is3D(file)
    /\ args.item_numbers.some
    /\ args.item_numbers.val = <<0>>
    /\ readLog # <<>>
    /\ \A k \in DOMAIN readLog : readLog[k][1] = 2

====
